---------------------------- MODULE Spec2Model ----------------------------
(***************************************************************************)
(* Model of the hierarchical configuration engine of                       *)
(* lib/ansible/modules/network/nxos/nxos_acl.py: ConfigLine, parse and     *)
(* CustomNetworkConfig (get_object, expand_section, get_section,           *)
(* difference, replace, add), and of the module's main with get_acl and    *)
(* the functions that build the commands.                                  *)
(*                                                                         *)
(* A string is a sequence of one-character strings.  A configuration is    *)
(* the node list self._config; a node reference is the node's position in  *)
(* that list (every ConfigLine the code keeps is appended to the list and  *)
(* none is ever removed), so parents and children are sequences of         *)
(* positions.                                                              *)
(*                                                                         *)
(* The variables indent, items, last and nops belong to the configuration *)
(* engine; run is one run of the module's main.  main does not use the     *)
(* engine, so each specification moves one of the two and leaves the other *)
(* as it is.                                                               *)
(***************************************************************************)
EXTENDS Integers, Sequences, FiniteSets, TLC

VARIABLES indent, items, last, nops, run

vars == <<indent, items, last, nops, run>>

-----------------------------------------------------------------------------
(* Bounds of the model                                                     *)

\* number of add and replace calls in one behaviour
MaxOps == 2
\* number of lines of a text handed to load
MaxLines == 2

-----------------------------------------------------------------------------
(* Strings                                                                 *)

\* the whitespace of the model's alphabet (str.strip, \s, \S)
IsSpace(c) == c = " "

\* re.sub(r'([{};])', '', line)
RemovePunct(s) == SelectSeq(s, LAMBDA c : c \notin {"{", "}", ";"})

\* len(s) - len(s.lstrip()), also match.start(1) of ^\s*(.+)$
RECURSIVE LeadingWs(_)
LeadingWs(s) ==
    IF s = <<>> \/ ~IsSpace(Head(s)) THEN 0 ELSE 1 + LeadingWs(Tail(s))

RECURSIVE TrailingWs(_)
TrailingWs(s) ==
    IF s = <<>> \/ ~IsSpace(s[Len(s)]) THEN 0
    ELSE 1 + TrailingWs(SubSeq(s, 1, Len(s) - 1))

\* str.strip()
Strip(s) ==
    IF LeadingWs(s) = Len(s) THEN <<>>
    ELSE SubSeq(s, LeadingWs(s) + 1, Len(s) - TrailingWs(s))

\* str.startswith(tok)
StartsWith(s, tok) == Len(s) >= Len(tok) /\ SubSeq(s, 1, Len(tok)) = tok

\* str.split('\n'): always at least one piece
RECURSIVE SplitLines(_, _)
SplitLines(s, cur) ==
    IF s = <<>> THEN <<cur>>
    ELSE IF Head(s) = "\n" THEN <<cur>> \o SplitLines(Tail(s), <<>>)
    ELSE SplitLines(Tail(s), Append(cur, Head(s)))

\* '\n'.join(pieces)
RECURSIVE JoinLines(_)
JoinLines(pieces) ==
    IF pieces = <<>> THEN <<>>
    ELSE IF Len(pieces) = 1 THEN pieces[1]
    ELSE pieces[1] \o <<"\n">> \o JoinLines(Tail(pieces))

\* s.rjust(len(s) + n): n blanks in front of s
RECURSIVE Blanks(_)
Blanks(n) == IF n <= 0 THEN <<>> ELSE <<" ">> \o Blanks(n - 1)

RJust(s, n) == Blanks(n) \o s

\* lower-casing of the alphabet, for re.I
LowerChar(c) == IF c = "A" THEN "a" ELSE IF c = "B" THEN "b" ELSE c

Lower(s) == [k \in 1..Len(s) |-> LowerChar(s[k])]

-----------------------------------------------------------------------------
(* ConfigLine                                                              *)

DEFAULT_COMMENT_TOKENS == {<<"#">>, <<"!">>}

\* ConfigLine(text) with raw set by the caller
ConfigLine(text, raw) ==
    [text |-> text, raw |-> raw, parents |-> <<>>, children |-> <<>>]

\* ConfigLine.__eq__ of node i of list A and node j of list B.  `same` says
\* that A and B are the same list object, so that equal positions are the
\* same object (list comparison takes identical elements as equal).
RECURSIVE ConfigLineEq(_, _, _, _, _)
ConfigLineEq(A, i, B, j, same) ==
    /\ A[i].text = B[j].text
    /\ Len(A[i].parents) = Len(B[j].parents)
    /\ \A k \in 1..Len(A[i].parents) :
          \/ same /\ A[i].parents[k] = B[j].parents[k]
          \/ ConfigLineEq(A, A[i].parents[k], B, B[j].parents[k], same)

\* ignore_line
ignore_line(text) == \E tok \in DEFAULT_COMMENT_TOKENS : StartsWith(text, tok)


-----------------------------------------------------------------------------
(* parse                                                                   *)

\* python's seq[:n]
Take(s, n) == SubSeq(s, 1, IF n < Len(s) THEN n ELSE Len(s))

\* parent.children.append(child) on the node list
AppendChild(config, parent, child) ==
    [config EXCEPT ![parent].children = Append(@, child)]

\* toplevel.match(line): the line starts with a non-whitespace character
IsTopLevel(line) == line # <<>> /\ ~IsSpace(line[1])

\* int(line_indent / indent)
LineLevel(line, ind) == LeadingWs(line) \div ind

\* one turn of the loop of parse; st is the pair of the locals config and
\* ancestors
ParseLine(st, line, ind) ==
    LET text == Strip(RemovePunct(line))
        cfg == ConfigLine(text, line)
        n == Len(st.config) + 1
        level == LineLevel(line, ind)
        wired == [cfg EXCEPT !.parents = Take(st.ancestors, level)]
        stack == Append(Take(st.ancestors, level), n)
        \* ancestors[parent_level], parent_level = level - 1; index -1 is
        \* the last element
        parent == IF level = 0 THEN stack[Len(stack)] ELSE stack[level]
    IN  IF text = <<>> \/ ignore_line(text) THEN st
        ELSE IF IsTopLevel(line)
        THEN [config |-> Append(st.config, cfg), ancestors |-> <<n>>]
        ELSE IF level > Len(st.ancestors)
        THEN [config |-> Append(st.config, wired), ancestors |-> st.ancestors]
        ELSE [config |-> AppendChild(Append(st.config, wired), parent, n),
              ancestors |-> stack]

RECURSIVE ParseLines(_, _, _)
ParseLines(st, lines, ind) ==
    IF lines = <<>> THEN st
    ELSE ParseLines(ParseLine(st, Head(lines), ind), Tail(lines), ind)

ParseStart == [config |-> <<>>, ancestors |-> <<>>]

\* parse(lines, indent)
parse(contents, ind) ==
    ParseLines(ParseStart, SplitLines(contents, <<>>), ind).config

-----------------------------------------------------------------------------
(* CustomNetworkConfig: navigation                                         *)

\* [p.text for p in item.parents]
ParentTexts(config, i) ==
    [k \in 1..Len(config[i].parents) |-> config[config[i].parents[k]].text]

\* get_object(path) for a non-empty path: the first node of the list with
\* the path's last text and the path's parent texts; 0 stands for None
get_object(config, path) ==
    LET hits == {i \in 1..Len(config) :
                    /\ config[i].text = path[Len(path)]
                    /\ ParentTexts(config, i) = SubSeq(path, 1, Len(path) - 1)}
    IN  IF hits = {} THEN 0 ELSE CHOOSE i \in hits : \A j \in hits : i <= j

\* `x in S` for a list S of nodes of the same node list
InNodes(config, i, S) ==
    \E k \in 1..Len(S) : S[k] = i \/ ConfigLineEq(config, i, config, S[k], TRUE)

\* expand_section(configobj, S)
RECURSIVE expand_section(_, _, _)
RECURSIVE ExpandChildren(_, _, _)
expand_section(config, i, S) ==
    ExpandChildren(config, config[i].children, Append(S, i))

ExpandChildren(config, children, S) ==
    IF children = <<>> THEN S
    ELSE IF InNodes(config, Head(children), S)
    THEN ExpandChildren(config, Tail(children), S)
    ELSE ExpandChildren(config, Tail(children),
                        expand_section(config, Head(children), S))

\* Mutant of to_block: the texts of the nodes are joined, not their raw
\* lines.
ToBlockText(config, section) ==
    JoinLines([k \in 1..Len(section) |-> config[section[k]].text])

\* to_block(section)
to_block(config, section) ==
    JoinLines([k \in 1..Len(section) |-> config[section[k]].raw])

\* get_section_objects(path): raises ValueError when the path resolves to
\* no node
get_section_objects(config, path) ==
    LET obj == get_object(config, path)
    IN  IF obj = 0 THEN [exc |-> "ValueError", nodes |-> <<>>]
        ELSE [exc |-> "", nodes |-> expand_section(config, obj, <<>>)]

\* Mutant of get_section: the ValueError of get_section_objects is not
\* caught.
GetSectionUncaught(config, path) ==
    LET section == get_section_objects(config, path)
    IN  IF section.exc = "ValueError"
        THEN [exc |-> "ValueError", isList |-> FALSE, text |-> <<>>]
        ELSE [exc |-> "", isList |-> FALSE,
              text |-> to_block(config, section.nodes)]

\* get_section(path), device_os other than junos: the ValueError of
\* get_section_objects is caught and list() is returned
get_section(config, path) ==
    LET section == get_section_objects(config, path)
    IN  IF section.exc = "ValueError"
        THEN [exc |-> "", isList |-> TRUE, text |-> <<>>]
        ELSE [exc |-> "", isList |-> FALSE,
              text |-> to_block(config, section.nodes)]

\* get_children(path): the children of the node get_object finds, <<>> for
\* None (every caller reads it as `get_children(path) or list()`)
get_children(config, path) ==
    LET obj == get_object(config, path)
    IN  IF obj = 0 THEN <<>> ELSE config[obj].children

\* `path[-1]` in the loop of get and of get_object: with an empty path the
\* index is out of range as soon as the loop meets a node
IndexErrorAt(config, path) == config # <<>> /\ path = <<>>

\* get(path), called with the string str or, when str is None, with the
\* list path: the node found (0 stands for None) or the IndexError raised
get(config, str, path) ==
    LET p == IF str # <<"None">> THEN <<str>> ELSE path
    IN  IF IndexErrorAt(config, p) THEN [exc |-> "IndexError", node |-> 0]
        ELSE [exc |-> "", node |-> get_object(config, p)]

\* get_children(path) as a call of its own: the children of the node found,
\* None (isList false) when no node is found, or the IndexError raised by
\* get_object
GetChildrenResult(config, path) ==
    IF IndexErrorAt(config, path)
    THEN [exc |-> "IndexError", isList |-> FALSE, nodes |-> <<>>]
    ELSE LET obj == get_object(config, path)
         IN  IF obj = 0 THEN [exc |-> "", isList |-> FALSE, nodes |-> <<>>]
             ELSE [exc |-> "", isList |-> TRUE,
                   nodes |-> config[obj].children]

-----------------------------------------------------------------------------
(* CustomNetworkConfig.add                                                 *)

\* the value None of an optional string argument and of an optional list
\* argument
NoText == <<"None">>
NoList == <<<<"None">>>>

\* `item not in self.items` for a fresh ConfigLine(line), which has no
\* parents
FreshInItems(config, line) ==
    \E j \in 1..Len(config) :
        ConfigLineEq(<<ConfigLine(line, line)>>, 1, config, j, FALSE)

\* add without parents: each line becomes a top-level node unless an equal
\* node is in the list
RECURSIVE AddGlobal(_, _)
AddGlobal(config, lines) ==
    IF lines = <<>> THEN config
    ELSE IF FreshInItems(config, Head(lines))
    THEN AddGlobal(config, Tail(lines))
    ELSE AddGlobal(Append(config, ConfigLine(Head(lines), Head(lines))),
                   Tail(lines))

\* Mutant of AddParent: a parent that is not found is appended to the node
\* list but not to the children of the ancestor before it.
AddParentUnwired(st, parents, index, ind) ==
    LET found == get_section_objects(st.config, SubSeq(parents, 1, index))
        p == parents[index]
        n == Len(st.config) + 1
        obj == [ConfigLine(p, RJust(p, (index - 1) * ind))
                   EXCEPT !.parents = st.ancestors]
    IN  IF found.exc = ""
        THEN [config |-> st.config,
              ancestors |-> Append(st.ancestors, found.nodes[1])]
        ELSE [config |-> Append(st.config, obj),
              ancestors |-> Append(st.ancestors, n)]

\* one turn of `for index, p in enumerate(parents)`; st holds the node list
\* and the local ancestors, index counts from 1
AddParent(st, parents, index, ind) ==
    LET found == get_section_objects(st.config, SubSeq(parents, 1, index))
        p == parents[index]
        n == Len(st.config) + 1
        obj == [ConfigLine(p, RJust(p, (index - 1) * ind))
                   EXCEPT !.parents = st.ancestors]
        appended == Append(st.config, obj)
    IN  IF found.exc = ""
        THEN [config |-> st.config,
              ancestors |-> Append(st.ancestors, found.nodes[1])]
        ELSE [config |-> IF st.ancestors # <<>>
                         THEN AppendChild(appended,
                                          st.ancestors[Len(st.ancestors)], n)
                         ELSE appended,
              ancestors |-> Append(st.ancestors, n)]

RECURSIVE AddParents(_, _, _, _)
AddParents(st, parents, index, ind) ==
    IF index > Len(parents) THEN st
    ELSE AddParents(AddParent(st, parents, index, ind), parents, index + 1, ind)

\* Mutant of AddChild: the line is appended without looking for a child
\* with the same text.
AddChildAlways(config, ancestors, line, offset) ==
    LET deepest == ancestors[Len(ancestors)]
        n == Len(config) + 1
        item == [ConfigLine(line, RJust(line, offset))
                    EXCEPT !.parents = ancestors]
    IN  AppendChild(Append(config, item), deepest, n)

\* one turn of `for line in to_list(lines)` below the deepest parent
AddChild(config, ancestors, line, offset) ==
    LET deepest == ancestors[Len(ancestors)]
        kids == config[deepest].children
        n == Len(config) + 1
        item == [ConfigLine(line, RJust(line, offset))
                    EXCEPT !.parents = ancestors]
    IN  IF \E k \in 1..Len(kids) : config[kids[k]].text = line
        THEN config
        ELSE AppendChild(Append(config, item), deepest, n)

RECURSIVE AddChildren(_, _, _, _)
AddChildren(config, ancestors, lines, offset) ==
    IF lines = <<>> THEN config
    ELSE AddChildren(AddChild(config, ancestors, Head(lines), offset),
                     ancestors, Tail(lines), offset)

\* add(lines, parents); lines is to_list(lines), parents is None or a list
add(config, ind, lines, parents) ==
    IF parents = NoList \/ parents = <<>>
    THEN AddGlobal(config, lines)
    ELSE LET st == AddParents([config |-> config, ancestors |-> <<>>],
                              parents, 1, ind)
         IN  AddChildren(st.config, st.ancestors, lines, Len(parents) * ind)

-----------------------------------------------------------------------------
(* CustomNetworkConfig.replace                                             *)

\* The regular expressions of the model are literal strings: '^%s$' % text
\* for the argument text, and a literal searched anywhere for an element of
\* the argument regex; both compiled with re.I.
Patterns(text, regex) ==
    IF regex = NoList \/ regex = <<>>
    THEN <<[anchored |-> TRUE, lit |-> text]>>
    ELSE [k \in 1..Len(regex) |-> [anchored |-> FALSE, lit |-> regex[k]]]

\* regexp.search(string)
Search(pattern, string) ==
    IF pattern.anchored THEN Lower(string) = Lower(pattern.lit)
    ELSE \E o \in 0..(Len(string) - Len(pattern.lit)) :
            SubSeq(Lower(string), o + 1, o + Len(pattern.lit))
                = Lower(pattern.lit)

\* the test of the loop of replace on one node
ReplaceHit(config, i, repl, patterns, parents) ==
    /\ \E k \in 1..Len(patterns) : Search(patterns[k], config[i].text)
    /\ config[i].text # repl
    /\ parents = ParentTexts(config, i)

\* the node `match` holds after the loop of replace; 0 stands for None.  The
\* break leaves the loop over the patterns only, so every later hit
\* overwrites match.
ReplaceMatch(config, repl, patterns, parents) ==
    LET hits == {i \in 1..Len(config) :
                    ReplaceHit(config, i, repl, patterns, parents)}
    IN  IF hits = {} THEN 0 ELSE CHOOSE i \in hits : \A j \in hits : j <= i

\* Mutant of replace: the raw text of the match becomes the replacement
\* without the indentation of the old raw text.
ReplaceDropsIndent(config, ind, repl, text, regex, parents, add_if_missing) ==
    LET ps == IF parents = NoList THEN <<>> ELSE parents
        m == ReplaceMatch(config, repl, Patterns(text, regex), ps)
    IN  IF text = NoText /\ regex = NoList
        THEN [exc |-> "ValueError", config |-> config]
        ELSE IF m # 0
        THEN [exc |-> "",
              config |-> [config EXCEPT ![m].text = repl, ![m].raw = repl]]
        ELSE IF add_if_missing
        THEN [exc |-> "", config |-> add(config, ind, <<repl>>, ps)]
        ELSE [exc |-> "", config |-> config]

\* Mutant of replace: without a match the replacement is added whatever
\* add_if_missing says.
ReplaceAlwaysAdds(config, ind, repl, text, regex, parents, add_if_missing) ==
    LET ps == IF parents = NoList THEN <<>> ELSE parents
        m == ReplaceMatch(config, repl, Patterns(text, regex), ps)
    IN  IF text = NoText /\ regex = NoList
        THEN [exc |-> "ValueError", config |-> config]
        ELSE IF m # 0
        THEN [exc |-> "",
              config |-> [config EXCEPT
                            ![m].text = repl,
                            ![m].raw = RJust(repl, LeadingWs(config[m].raw))]]
        ELSE [exc |-> "", config |-> add(config, ind, <<repl>>, ps)]

\* replace(replace, text, regex, parents, add_if_missing)
replace(config, ind, repl, text, regex, parents, add_if_missing) ==
    LET ps == IF parents = NoList THEN <<>> ELSE parents
        m == ReplaceMatch(config, repl, Patterns(text, regex), ps)
    IN  IF text = NoText /\ regex = NoList
        THEN [exc |-> "ValueError", config |-> config]
        ELSE IF m # 0
        THEN [exc |-> "",
              config |-> [config EXCEPT
                            ![m].text = repl,
                            ![m].raw = RJust(repl, LeadingWs(config[m].raw))]]
        ELSE IF add_if_missing
        THEN [exc |-> "", config |-> add(config, ind, <<repl>>, ps)]
        ELSE [exc |-> "", config |-> config]

-----------------------------------------------------------------------------
(* CustomNetworkConfig.difference                                          *)

\* A nested OrderedDict is a sequence of entries [key, sub] in insertion
\* order, sub being the nested OrderedDict of the key.

\* walk (and create) the keys of block from the dict d downwards, as the
\* first loop of expand does
RECURSIVE DictPath(_, _)
DictPath(d, block) ==
    IF block = <<>> THEN d
    ELSE LET at == {k \in 1..Len(d) : d[k].key = Head(block)}
         IN  IF at = {}
             THEN Append(d, [key |-> Head(block),
                             sub |-> DictPath(<<>>, Tail(block))])
             ELSE LET k == CHOOSE k \in at : TRUE
                  IN  [d EXCEPT ![k].sub = DictPath(@, Tail(block))]

\* expand(obj, items): the raw lines of obj's parents and of obj as nested
\* keys, then a key for each child of obj below them
RECURSIVE ExpandKids(_, _, _)
ExpandKids(d, block, kidsRaw) ==
    IF kidsRaw = <<>> THEN d
    ELSE ExpandKids(DictPath(d, Append(block, Head(kidsRaw))), block,
                    Tail(kidsRaw))

expand(config, obj, d) ==
    LET block == [k \in 1..Len(config[obj].parents) |->
                     config[config[obj].parents[k]].raw]
                 \o <<config[obj].raw>>
        kidsRaw == [k \in 1..Len(config[obj].children) |->
                       config[config[obj].children[k]].raw]
    IN  ExpandKids(DictPath(d, block), block, kidsRaw)

\* Mutant of flatten: the keys of the later entries come first.
RECURSIVE FlattenLastFirst(_)
FlattenLastFirst(d) ==
    IF d = <<>> THEN <<>>
    ELSE FlattenLastFirst(Tail(d)) \o <<d[1].key>>
         \o FlattenLastFirst(d[1].sub)

\* flatten(data): the keys in pre-order
RECURSIVE flatten(_)
flatten(d) ==
    IF d = <<>> THEN <<>>
    ELSE <<d[1].key>> \o flatten(d[1].sub) \o flatten(Tail(d))

\* `item not in other.items`
InOther(A, i, B, same) ==
    \E j \in 1..Len(B) : (same /\ i = j) \/ ConfigLineEq(A, i, B, j, same)

\* the positions 1..Len(B) as a list of node references
AllNodes(B) == [k \in 1..Len(B) |-> k]

\* Mutant of Updates: with match 'line' the nodes that ARE in other.items
\* are taken as updates.
UpdatesInverted(A, B, same, path, match) ==
    LET config == IF path = NoList \/ path = <<>> THEN AllNodes(A)
                  ELSE get_children(A, path)
    IN  IF match = "line"
        THEN SelectSeq(config, LAMBDA i : InOther(A, i, B, same))
        ELSE <<>>

\* Mutant of Updates: with match 'exact' only the lengths are compared.
UpdatesLengthOnly(A, B, same, path, match) ==
    LET config  == IF path = NoList \/ path = <<>> THEN AllNodes(A)
                   ELSE get_children(A, path)
        current == IF path = NoList \/ path = <<>> THEN AllNodes(B)
                   ELSE get_children(B, path)
    IN  IF match = "line"
        THEN SelectSeq(config, LAMBDA i : ~InOther(A, i, B, same))
        ELSE IF Len(current) # Len(config) THEN config ELSE <<>>

\* Mutant of Updates: with match 'line' and a path, a node is looked for
\* among the other configuration's children of the path only.
UpdatesAgainstChildren(A, B, same, path, match) ==
    LET config  == IF path = NoList \/ path = <<>> THEN AllNodes(A)
                   ELSE get_children(A, path)
        current == IF path = NoList \/ path = <<>> THEN AllNodes(B)
                   ELSE get_children(B, path)
        differs(k) == ~ConfigLineEq(A, config[k], B, current[k], same)
    IN  IF match = "line"
        THEN SelectSeq(config,
                 LAMBDA i : ~\E k \in 1..Len(current) :
                                \/ same /\ i = current[k]
                                \/ ConfigLineEq(A, i, B, current[k], same))
        ELSE IF match = "strict"
        THEN LET upd == SelectSeq([k \in 1..Len(config) |-> k],
                                  LAMBDA k : k > Len(current) \/ differs(k))
             IN  [j \in 1..Len(upd) |-> config[upd[j]]]
        ELSE IF match = "exact"
        THEN IF Len(current) # Len(config) THEN config
             ELSE IF \E k \in 1..Len(config) : differs(k) THEN config
             ELSE <<>>
        ELSE <<>>

\* the list `updates` of difference; config and current are lists of node
\* references into A and B
Updates(A, B, same, path, match) ==
    LET config  == IF path = NoList \/ path = <<>> THEN AllNodes(A)
                   ELSE get_children(A, path)
        current == IF path = NoList \/ path = <<>> THEN AllNodes(B)
                   ELSE get_children(B, path)
        differs(k) == ~ConfigLineEq(A, config[k], B, current[k], same)
    IN  IF match = "line"
        THEN SelectSeq(config, LAMBDA i : ~InOther(A, i, B, same))
        ELSE IF match = "strict"
        THEN LET upd == SelectSeq([k \in 1..Len(config) |-> k],
                                  LAMBDA k : k > Len(current) \/ differs(k))
             IN  [j \in 1..Len(upd) |-> config[upd[j]]]
        ELSE IF match = "exact"
        THEN IF Len(current) # Len(config) THEN config
             ELSE IF \E k \in 1..Len(config) : differs(k) THEN config
             ELSE <<>>
        ELSE <<>>

\* Mutant of Accumulate: with replace 'block' an update is replaced by the
\* first of its parents, the outermost one.
RECURSIVE AccumulateOutermost(_, _, _, _)
AccumulateOutermost(A, updates, mode, d) ==
    IF updates = <<>> THEN d
    ELSE LET u == Head(updates)
             obj == IF mode = "block" /\ A[u].parents # <<>>
                    THEN A[u].parents[1] ELSE u
         IN  AccumulateOutermost(A, Tail(updates), mode, expand(A, obj, d))

\* the loop that accumulates the updates in diffs
RECURSIVE Accumulate(_, _, _, _)
Accumulate(A, updates, mode, d) ==
    IF updates = <<>> THEN d
    ELSE LET u == Head(updates)
             obj == IF mode = "block" /\ A[u].parents # <<>>
                    THEN A[u].parents[Len(A[u].parents)] ELSE u
         IN  Accumulate(A, Tail(updates), mode, expand(A, obj, d))

\* self.difference(other, path, match, replace) of a configuration whose
\* device_os is not junos; A is self.items, B is other.items
difference(A, B, same, path, match, mode) ==
    flatten(Accumulate(A, Updates(A, B, same, path, match), mode, <<>>))

-----------------------------------------------------------------------------
(* Inputs                                                                  *)

\* the indent widths a configuration is constructed with
Indents == {1, 2}

\* the lines a loaded text is made of: a top-level statement, a statement
\* indented by one column, one indented by two columns and followed by a
\* brace, a comment
LineChoices ==
    { <<"a">>, <<" ", "b">>, <<" ", " ", "b", " ", "{">>, <<"!">> }

RECURSIVE LineSeqs(_, _)
LineSeqs(choices, n) ==
    IF n = 0 THEN {<<>>}
    ELSE LineSeqs(choices, n - 1)
         \cup {Append(ls, l) : ls \in LineSeqs(choices, n - 1), l \in choices}

\* a text in which the section 'a' is repeated, with different statements
\* below its two occurrences
RepeatedSection ==
    JoinLines(<< <<"a">>, <<" ", "c">>, <<"a">>, <<" ", "b">> >>)

\* the texts handed to load: at most MaxLines lines joined by newlines, and
\* the text with the repeated section
Texts ==
    {JoinLines(ls) : ls \in LineSeqs(LineChoices, MaxLines)}
    \cup {RepeatedSection}

\* the arguments of add
AddArgs ==
    { [lines |-> <<<<"A">>>>, parents |-> NoList],
      [lines |-> <<<<"b">>, <<"c">>>>, parents |-> <<<<"b">>>>],
      [lines |-> <<<<"b">>>>, parents |-> <<<<"a">>, <<"b">>>>] }

\* the arguments of add for a configuration that is built by add alone:
\* no line, one line, two lines, the same line twice, a line with leading
\* white space; no parents, an empty list of parents, one to three parents
AddOnlyLines ==
    { <<>>, <<<<"a">>>>, <<<<"b">>>>, <<<<"a">>, <<"b">>>>,
      <<<<"b">>, <<"b">>>>, <<<<" ", "b">>>> }

AddOnlyParents ==
    { NoList, <<>>, <<<<"a">>>>, <<<<"b">>>>, <<<<"a">>, <<"b">>>>,
      <<<<"a">>, <<"a">>>>, <<<<"a">>, <<"b">>, <<"a">>>> }

AddOnlyArgs ==
    {[lines |-> l, parents |-> p] : l \in AddOnlyLines, p \in AddOnlyParents}

\* the arguments of replace
ReplaceArgs ==
    { [repl |-> <<"c">>, text |-> <<"a">>, regex |-> NoList,
       parents |-> NoList, add_if_missing |-> FALSE],
      [repl |-> <<"a">>, text |-> <<"a">>, regex |-> NoList,
       parents |-> NoList, add_if_missing |-> TRUE],
      [repl |-> <<"c">>, text |-> NoText, regex |-> <<<<"b">>>>,
       parents |-> <<<<"b">>>>, add_if_missing |-> FALSE],
      [repl |-> <<"c">>, text |-> <<"b">>, regex |-> NoList,
       parents |-> <<<<"a">>>>, add_if_missing |-> TRUE],
      [repl |-> <<"c">>, text |-> NoText, regex |-> NoList,
       parents |-> NoList, add_if_missing |-> FALSE] }

\* the paths of get_section and get_section_objects
Paths == { <<<<"a">>>>, <<<<"b">>>>, <<<<"a">>, <<"b">>>> }

\* the arguments of get: a string or a list path; the paths of
\* get_children.  The empty path, paths that resolve in some configuration,
\* a path longer than any configuration is deep, a text no node has
GetPaths ==
    { <<>>, <<<<"a">>>>, <<<<"a">>, <<"b">>>>,
      <<<<"a">>, <<"b">>, <<"b">>, <<"b">>>>, <<<<"z">>>> }

GetArgs ==
    {[str |-> NoText, path |-> p] : p \in GetPaths}
    \cup {[str |-> <<"b">>, path |-> NoList]}

\* the texts the reference configuration of difference is loaded from:
\* the empty text, a top-level statement followed by a brace, the same with
\* a statement indented by two columns below it, that statement alone, the
\* text in which the section 'a' is repeated, and a text of three levels
RefTop == <<"a", " ", "{">>
RefSub == <<" ", " ", "b">>
RefDeep == JoinLines(<< <<"a">>, <<" ", "b">>, <<" ", " ", "b">> >>)
RefTexts ==
    { <<>>, RefTop, JoinLines(<<RefTop, RefSub>>), RefSub, RepeatedSection,
      RefDeep }

\* the arguments path, match and replace of difference
DiffArgs ==
    { [path |-> NoList, match |-> "line", mode |-> "line"],
      [path |-> NoList, match |-> "line", mode |-> "block"],
      [path |-> NoList, match |-> "strict", mode |-> "line"],
      [path |-> NoList, match |-> "exact", mode |-> "line"],
      [path |-> <<<<"a">>>>, match |-> "line", mode |-> "line"],
      [path |-> <<<<"a">>>>, match |-> "exact", mode |-> "block"] }

-----------------------------------------------------------------------------
(* The state machine                                                       *)

\* the record of the last call: its name, its arguments, the node list
\* before it, and what it returned or raised
NoCall ==
    [op |-> "init", pre |-> <<>>, contents |-> <<>>, lines |-> <<>>,
     parents |-> NoList, repl |-> <<>>, text |-> NoText, regex |-> NoList,
     add_if_missing |-> FALSE, path |-> NoList, node |-> 0, other |-> <<>>,
     same |-> FALSE, match |-> "", mode |-> "", exc |-> "",
     nodes |-> <<>>, isList |-> FALSE, out |-> <<>>]

\* no run of main
NoRun == [pc |-> "none"]

\* The calls that change the configuration.  A query leaves the
\* configuration as it is, so a behaviour ends with its first query.
Building == last.op \in {"init", "load", "add", "replace"}

\* CustomNetworkConfig(indent=ind, ...) before `if contents`: an empty node
\* list
Init ==
    /\ indent \in Indents
    /\ items = <<>>
    /\ last = NoCall
    /\ nops = 0
    /\ run = NoRun

\* load(contents), as the constructor calls it
Load ==
    /\ last.op = "init"
    /\ \E contents \in Texts :
          /\ items' = parse(contents, indent)
          /\ last' = [NoCall EXCEPT !.op = "load", !.contents = contents]
    /\ UNCHANGED <<indent, nops, run>>

\* add(lines, parents)
Add ==
    /\ Building
    /\ nops < MaxOps
    /\ \E a \in AddArgs :
          /\ items' = add(items, indent, a.lines, a.parents)
          /\ last' = [NoCall EXCEPT !.op = "add", !.pre = items,
                                    !.lines = a.lines, !.parents = a.parents]
    /\ nops' = nops + 1
    /\ UNCHANGED <<indent, run>>

\* replace(replace, text, regex, parents, add_if_missing)
Replace ==
    /\ Building
    /\ nops < MaxOps
    /\ \E a \in ReplaceArgs :
          LET r == replace(items, indent, a.repl, a.text, a.regex, a.parents,
                           a.add_if_missing)
          IN  /\ items' = r.config
              /\ last' = [NoCall EXCEPT !.op = "replace", !.pre = items,
                                        !.repl = a.repl, !.text = a.text,
                                        !.regex = a.regex,
                                        !.parents = a.parents,
                                        !.add_if_missing = a.add_if_missing,
                                        !.exc = r.exc]
    /\ nops' = nops + 1
    /\ UNCHANGED <<indent, run>>

\* get_section_objects(path)
GetSectionObjects ==
    /\ Building
    /\ \E path \in Paths :
          LET r == get_section_objects(items, path)
          IN  last' = [NoCall EXCEPT !.op = "get_section_objects",
                                     !.path = path, !.exc = r.exc,
                                     !.nodes = r.nodes]
    /\ UNCHANGED <<indent, items, nops, run>>

\* get_section(path)
GetSection ==
    /\ Building
    /\ \E path \in Paths :
          LET r == get_section(items, path)
          IN  last' = [NoCall EXCEPT !.op = "get_section", !.path = path,
                                     !.exc = r.exc, !.isList = r.isList,
                                     !.out = r.text]
    /\ UNCHANGED <<indent, items, nops, run>>

\* expand_section(configobj) on a node of the list
ExpandSection ==
    /\ Building
    /\ \E i \in 1..Len(items) :
          last' = [NoCall EXCEPT !.op = "expand_section", !.node = i,
                                 !.nodes = expand_section(items, i, <<>>)]
    /\ UNCHANGED <<indent, items, nops, run>>

\* get(path)
Get ==
    /\ Building
    /\ \E a \in GetArgs :
          LET r == get(items, a.str, a.path)
          IN  last' = [NoCall EXCEPT !.op = "get", !.text = a.str,
                                     !.path = a.path, !.exc = r.exc,
                                     !.node = r.node]
    /\ UNCHANGED <<indent, items, nops, run>>

\* get_children(path)
GetChildren ==
    /\ Building
    /\ \E path \in GetPaths :
          LET r == GetChildrenResult(items, path)
          IN  last' = [NoCall EXCEPT !.op = "get_children", !.path = path,
                                     !.exc = r.exc, !.isList = r.isList,
                                     !.nodes = r.nodes]
    /\ UNCHANGED <<indent, items, nops, run>>

\* self.difference(self, path, match, replace)
DifferenceSelf ==
    /\ Building
    /\ \E a \in DiffArgs :
          last' = [NoCall EXCEPT
                     !.op = "difference", !.other = items, !.same = TRUE,
                     !.path = a.path, !.match = a.match, !.mode = a.mode,
                     !.out = difference(items, items, TRUE, a.path, a.match,
                                        a.mode)]
    /\ UNCHANGED <<indent, items, nops, run>>

\* self.difference(other, path, match, replace) against a configuration
\* loaded from a text
DifferenceOther ==
    /\ Building
    /\ \E ref \in RefTexts, a \in DiffArgs :
          LET other == parse(ref, indent)
          IN  last' = [NoCall EXCEPT
                         !.op = "difference", !.other = other,
                         !.same = FALSE, !.path = a.path, !.match = a.match,
                         !.mode = a.mode,
                         !.out = difference(items, other, FALSE, a.path,
                                            a.match, a.mode)]
    /\ UNCHANGED <<indent, items, nops, run>>

Next ==
    \/ Load
    \/ Add
    \/ Replace
    \/ GetSectionObjects
    \/ GetSection
    \/ ExpandSection
    \/ Get
    \/ GetChildren
    \/ DifferenceSelf
    \/ DifferenceOther

Spec == Init /\ [][Next]_vars

\* The calls that build a configuration, without the queries.
NextBuild ==
    \/ Load
    \/ Add
    \/ Replace

SpecBuild == Init /\ [][NextBuild]_vars

\* Building a configuration, then navigating it.
NextNav ==
    \/ Load
    \/ Add
    \/ Replace
    \/ GetSectionObjects
    \/ GetSection
    \/ ExpandSection
    \/ Get
    \/ GetChildren

SpecNav == Init /\ [][NextNav]_vars

\* Building a configuration, then diffing it.
NextDiff ==
    \/ Load
    \/ Add
    \/ Replace
    \/ DifferenceSelf
    \/ DifferenceOther

SpecDiff == Init /\ [][NextDiff]_vars

\* Building a configuration by load and add alone, then diffing it.
NextAddDiff ==
    \/ Load
    \/ Add
    \/ DifferenceSelf
    \/ DifferenceOther

SpecAddDiff == Init /\ [][NextAddDiff]_vars

\* add(lines, parents) on a configuration that was constructed without
\* contents and has been changed by add alone
AddOnly ==
    /\ last.op \in {"init", "add"}
    /\ nops < MaxOps
    /\ \E a \in AddOnlyArgs :
          /\ items' = add(items, indent, a.lines, a.parents)
          /\ last' = [NoCall EXCEPT !.op = "add", !.pre = items,
                                    !.lines = a.lines, !.parents = a.parents]
    /\ nops' = nops + 1
    /\ UNCHANGED <<indent, run>>

\* A configuration built from the empty one by calls of add.
NextAdd == AddOnly

SpecAdd == Init /\ [][NextAdd]_vars

-----------------------------------------------------------------------------
(* get_acl                                                                 *)

(* A dict of strings is the set of its <<key, value>> pairs; the string    *)
(* "None" stands for None.  A command is the sequence of the words that    *)
(* the code joins with blanks.  The answer of the device to 'show ip       *)
(* access-list' is the list ROW_ip_ipv6_mac of its rows: a row has the     *)
(* acl_name, says whether it has a TABLE_seqno and whether the ROW_seqno   *)
(* of that table is a single dict or a list, and holds the entries; an     *)
(* entry is a record of the keys the device sets.                          *)

\* dict.get(key)
Lookup(d, key) ==
    IF \E pr \in d : pr[1] = key
    THEN (CHOOSE pr \in d : pr[1] = key)[2]
    ELSE "None"

\* each.get(key) on an entry of the device's answer
Field(each, key) == IF key \in DOMAIN each THEN each[key] ELSE "None"

\* each.get(key, default)
FieldOr(each, key, default) ==
    IF key \in DOMAIN each THEN each[key] ELSE default

\* `if value`: neither None nor the empty string
Truthy(value) == value # "None" /\ value # ""

\* str(seqno) for the sequence numbers of the model's devices
Str(n) ==
    IF n = 10 THEN "10" ELSE IF n = 20 THEN "20" ELSE IF n = 30 THEN "30"
    ELSE "None"

\* the names of the options in the module and the keys of the device's
\* answer they are read from
OPTIONS_NAMES ==
    {"log", "urg", "ack", "psh", "rst", "syn", "fin", "established", "dscp",
     "precedence", "fragments", "time_range"}

OptionKey(option) ==
    IF option = "dscp" THEN "dscp_str"
    ELSE IF option = "precedence" THEN "precedence_str"
    ELSE IF option = "time_range" THEN "timerange"
    ELSE option

\* the dict temp that get_acl fills for one entry
TempOf(acl_name, each) ==
    {<<"name", acl_name>>, <<"seq", Str(each.seqno)>>}
    \cup
    (IF Truthy(Field(each, "remark"))
     THEN {<<"remark", Field(each, "remark")>>, <<"action", "remark">>}
     ELSE {<<"action", Field(each, "permitdeny")>>,
           <<"proto", FieldOr(each, "proto",
                              FieldOr(each, "proto_str", Field(each, "ip")))>>,
           <<"src", FieldOr(each, "src_any", Field(each, "src_ip_prefix"))>>,
           <<"src_port_op", Field(each, "src_port_op")>>,
           <<"src_port1", Field(each, "src_port1_num")>>,
           <<"src_port2", Field(each, "src_port2_num")>>,
           <<"dest", FieldOr(each, "dest_any", Field(each, "dest_ip_prefix"))>>,
           <<"dest_port_op", Field(each, "dest_port_op")>>,
           <<"dest_port1", Field(each, "dest_port1_num")>>,
           <<"dest_port2", Field(each, "dest_port2_num")>>})

\* the dict keep of one entry: the pairs of temp with a value, and under
\* 'options' the options the device reports (none for a remark)
KeepOf(acl_name, each) ==
    [core    |-> {pr \in TempOf(acl_name, each) : Truthy(pr[2])},
     options |-> IF Truthy(Field(each, "remark")) THEN {}
                 ELSE {<<o, Field(each, OptionKey(o))>> :
                         o \in {q \in OPTIONS_NAMES :
                                   Field(each, OptionKey(q)) # "None"}}]

\* the empty dict saveme
NoAce == [core |-> {}, options |-> {}]

\* get_acl(module, acl_name, seq_number): saveme, new_acl and seqs;
\* no_entries says that new_acl is [{'acl': 'no_entries'}]
get_acl(device, acl_name, seq_number) ==
    LET named == {k \in 1..Len(device) : device[k].acl_name = acl_name}
        \* the loop keeps the last row of that name
        acl_body == device[CHOOSE k \in named : \A m \in named : m <= k]
        acl_entries == IF acl_body.row_seqno = "dict"
                       THEN <<acl_body.entries[1]>> ELSE acl_body.entries
        new_acl == [k \in 1..Len(acl_entries) |->
                       KeepOf(acl_body.acl_name, acl_entries[k])]
        hits == {k \in 1..Len(new_acl) :
                    Lookup(new_acl[k].core, "seq") = seq_number}
    IN  IF named = {} \/ ~acl_body.table_seqno
        THEN [saveme |-> NoAce, no_entries |-> TRUE, new_acl |-> <<>>,
              seqs |-> <<>>]
        ELSE [saveme |-> IF hits = {} THEN NoAce
                         ELSE new_acl[CHOOSE k \in hits :
                                          \A m \in hits : m <= k],
              no_entries |-> FALSE,
              new_acl |-> new_acl,
              seqs |-> [k \in 1..Len(new_acl) |->
                           Lookup(new_acl[k].core, "seq")]]

-----------------------------------------------------------------------------
(* The commands of an ACE                                                  *)

\* _acl_operand(operand, srcp1, sprcp2)
acl_operand(operand, srcp1, sprcp2) ==
    IF operand = "range" THEN <<operand, srcp1, sprcp2>>
    ELSE <<operand, srcp1>>

\* config_core_acl(proposed)
config_core_acl(proposed) ==
    LET seq == Lookup(proposed, "seq")
        remark == Lookup(proposed, "remark")
        src_port_op == Lookup(proposed, "src_port_op")
        dest_port_op == Lookup(proposed, "dest_port_op")
    IN  IF ~Truthy(remark)
        THEN <<seq, Lookup(proposed, "action"), Lookup(proposed, "proto"),
               Lookup(proposed, "src")>>
             \o (IF Truthy(src_port_op)
                 THEN acl_operand(src_port_op, Lookup(proposed, "src_port1"),
                                  Lookup(proposed, "src_port2"))
                 ELSE <<>>)
             \o <<Lookup(proposed, "dest")>>
             \o (IF Truthy(dest_port_op)
                 THEN acl_operand(dest_port_op,
                                  Lookup(proposed, "dest_port1"),
                                  Lookup(proposed, "dest_port2"))
                 ELSE <<>>)
        ELSE <<seq, "remark", remark>>

ENABLE_ONLY ==
    {"psh", "urg", "log", "ack", "syn", "established", "rst", "fin",
     "fragments"}

\* the list OTHER of config_acl_options
OTHER_OPTIONS == {"dscp", "precedence", "time-range"}

\* the order in which config_acl_options meets the keys of the dict (the
\* model's tasks set one option that gives words, so the order of a dict's
\* keys plays no part)
OptionOrder ==
    <<"log", "urg", "ack", "psh", "rst", "syn", "fin", "established",
      "fragments", "dscp", "precedence", "time-range">>

\* config_acl_options(options): the words of the options
RECURSIVE OptionWords(_, _)
OptionWords(options, order) ==
    IF order = <<>> THEN <<>>
    ELSE LET option == Head(order)
             value == Lookup(options, option)
         IN  (IF value = "None" THEN <<>>
              ELSE IF option \in ENABLE_ONLY
              THEN IF value = "enable" THEN <<option>> ELSE <<>>
              ELSE IF option \in OTHER_OPTIONS THEN <<option, value>>
              ELSE <<>>)
             \o OptionWords(options, Tail(order))

config_acl_options(options) ==
    LET time_range == Lookup(options, "time_range")
        renamed == IF Truthy(time_range)
                   THEN {pr \in options : pr[1] # "time_range"}
                        \cup {<<"time-range", time_range>>}
                   ELSE options
    IN  OptionWords(renamed, OptionOrder)

\* flatten_list(command_lists)
RECURSIVE flatten_list(_)
flatten_list(command_lists) ==
    IF command_lists = <<>> THEN <<>>
    ELSE Head(command_lists) \o flatten_list(Tail(command_lists))

-----------------------------------------------------------------------------
(* main                                                                    *)

CORE ==
    {"seq", "name", "action", "proto", "src", "src_port_op", "src_port1",
     "src_port2", "dest", "dest_port_op", "dest_port1", "dest_port2",
     "remark"}

REQUIRED == {"seq", "name", "action", "proto", "src", "dest"}

ABSENT == {"name", "seq"}

\* module.params[param]: None for a parameter the task does not set
Param(task, param) == IF param \in DOMAIN task THEN task[param] ELSE "None"

\* the checks of main that end the run with fail_json; "" when all pass
FailMsg(task) ==
    LET given(param) == Param(task, param) # "None" IN
    IF Param(task, "action") = "remark" /\ ~Truthy(Param(task, "remark"))
    THEN "when state is action, remark param is also required"
    ELSE IF /\ task.state = "present"
            /\ ~(/\ Truthy(Param(task, "action"))
                  /\ Truthy(Param(task, "remark"))
                  /\ Truthy(Param(task, "seq")))
            /\ \E each \in REQUIRED : ~given(each)
    THEN "req'd params when state is present:"
    ELSE IF task.state = "absent" /\ \E each \in ABSENT : ~given(each)
    THEN "require params when state is absent"
    ELSE IF task.state = "delete_acl" /\ ~given("name")
    THEN "param name req'd when state is delete_acl"
    ELSE IF Truthy(Param(task, "dscp")) /\ Truthy(Param(task, "precedence"))
    THEN "only one of the params dscp/precedence are allowed"
    ELSE ""

\* the parameters of the task named in names that are not None
Proposed(task, names) ==
    {<<param, task[param]>> :
        param \in {q \in names \cap DOMAIN task : task[q] # "None"}}

proposed_core(task) == Proposed(task, CORE)

proposed_options(task) == Proposed(task, OPTIONS_NAMES)

\* delta_core and delta_options: empty when the existing entry is a remark,
\* else the proposed pairs that the existing entry does not have
Delta(proposed, existing, existing_core) ==
    IF ~Truthy(Lookup(existing_core, "remark")) THEN proposed \ existing
    ELSE {}

\* Mutant of Commands: with state present the new ACE comes before the
\* removal of the existing one.
CommandsAddFirst(task, existing_core, delta_core, delta_options, no_entries) ==
    LET removal == <<"no", Param(task, "seq")>>
        core == config_core_acl(proposed_core(task))
        ace == IF delta_options # {}
               THEN core \o config_acl_options(proposed_options(task))
               ELSE core
    IN  IF task.state = "present"
        THEN IF delta_core # {} \/ delta_options # {}
             THEN << <<ace>> >>
                  \o (IF existing_core # {} THEN << <<removal>> >> ELSE <<>>)
             ELSE <<>>
        ELSE IF task.state = "absent"
        THEN IF existing_core # {} THEN << <<removal>> >> ELSE <<>>
        ELSE IF ~no_entries
        THEN << <<<<"no", "ip", "access-list", Param(task, "name")>>>> >>
        ELSE <<>>

\* the list `commands` that main builds by state, before the preface: a
\* list of lists of commands
Commands(task, existing_core, delta_core, delta_options, no_entries) ==
    LET removal == <<"no", Param(task, "seq")>>
        core == config_core_acl(proposed_core(task))
        ace == IF delta_options # {}
               THEN core \o config_acl_options(proposed_options(task))
               ELSE core
    IN  IF task.state = "present"
        THEN IF delta_core # {} \/ delta_options # {}
             THEN (IF existing_core # {} THEN << <<removal>> >> ELSE <<>>)
                  \o << <<ace>> >>
             ELSE <<>>
        ELSE IF task.state = "absent"
        THEN IF existing_core # {} THEN << <<removal>> >> ELSE <<>>
        ELSE IF ~no_entries
        THEN << <<<<"no", "ip", "access-list", Param(task, "name")>>>> >>
        ELSE <<>>

\* commands.insert(0, preface) when there are commands and the state is
\* present or absent
WithPreface(task, commands) ==
    IF commands # <<>> /\ task.state \in {"present", "absent"}
    THEN << <<<<"ip", "access-list", Param(task, "name")>>>> >> \o commands
    ELSE commands

\* what execute_config_command sends to the device: module.configure puts
\* 'configure' before a copy of the commands when the transport is cli
Sent(task, cmds) ==
    IF task.transport = "cli" THEN <<<<"configure">>>> \o cmds ELSE cmds

-----------------------------------------------------------------------------
(* The inputs of a run of main                                             *)

\* the ACE of a task: none, a permit, a permit of another protocol, a
\* remark, and the action remark without its text
AceParams ==
    { [action |-> "None", remark |-> "None", proto |-> "None",
       src |-> "None", dest |-> "None"],
      [action |-> "permit", remark |-> "None", proto |-> "tcp",
       src |-> "any", dest |-> "any"],
      [action |-> "permit", remark |-> "None", proto |-> "udp",
       src |-> "any", dest |-> "any"],
      [action |-> "remark", remark |-> "r", proto |-> "None",
       src |-> "None", dest |-> "None"],
      [action |-> "remark", remark |-> "None", proto |-> "None",
       src |-> "None", dest |-> "None"] }

\* the options of a task: none, log, dscp, and dscp with precedence
OptionParams ==
    { [log |-> "None", dscp |-> "None", precedence |-> "None"],
      [log |-> "enable", dscp |-> "None", precedence |-> "None"],
      [log |-> "None", dscp |-> "af11", precedence |-> "None"],
      [log |-> "None", dscp |-> "af11", precedence |-> "critical"] }

Tasks ==
    { [state |-> st, name |-> "A", seq |-> sq, action |-> ace.action,
       remark |-> ace.remark, proto |-> ace.proto, src |-> ace.src,
       dest |-> ace.dest, log |-> opt.log, dscp |-> opt.dscp,
       precedence |-> opt.precedence, check_mode |-> cm, transport |-> tr] :
        st \in {"present", "absent", "delete_acl"}, sq \in {"None", "10"},
        ace \in AceParams, opt \in OptionParams, cm \in BOOLEAN,
        tr \in {"cli", "nxapi"} }

\* entries of the device's answer
PermitTcp ==
    [seqno |-> 10, permitdeny |-> "permit", proto |-> "tcp",
     src_any |-> "any", dest_any |-> "any"]
PermitTcpLog ==
    [seqno |-> 10, permitdeny |-> "permit", proto |-> "tcp",
     src_any |-> "any", dest_any |-> "any", log |-> "enable"]
RemarkR == [seqno |-> 10, remark |-> "r"]
RemarkOld == [seqno |-> 10, remark |-> "old"]
DenyIp ==
    [seqno |-> 20, permitdeny |-> "deny", ip |-> "ip", src_any |-> "any",
     dest_any |-> "any"]

\* a row of the device's answer
Row(name, table_seqno, row_seqno, entries) ==
    [acl_name |-> name, table_seqno |-> table_seqno, row_seqno |-> row_seqno,
     entries |-> entries]

\* the ACL B that every device of the model has besides the ACL A
RowB == Row("B", TRUE, "dict", <<PermitTcp>>)

\* the devices: without the ACL A, with the ACL A without entries, and with
\* the ACL A holding one entry (as a dict) or two (as a list)
Devices ==
    { <<RowB>>,
      <<Row("A", FALSE, "none", <<>>), RowB>>,
      <<RowB, Row("A", TRUE, "dict", <<PermitTcp>>)>>,
      <<Row("A", TRUE, "list", <<PermitTcp, DenyIp>>), RowB>>,
      <<Row("A", TRUE, "list", <<DenyIp, PermitTcpLog>>)>>,
      <<Row("A", TRUE, "dict", <<RemarkR>>), RowB>>,
      <<Row("A", TRUE, "list", <<RemarkOld, DenyIp>>), RowB>> }

-----------------------------------------------------------------------------
(* A run of main                                                           *)

\* main is called: the task's parameters are read
InitMain ==
    /\ indent = 2
    /\ items = <<>>
    /\ last = NoCall
    /\ nops = 0
    /\ run \in {[pc |-> "start", task |-> task, device |-> device,
                  msg |-> "", existing_core |-> {}, existing_options |-> {},
                  no_entries |-> FALSE, delta_core |-> {},
                  delta_options |-> {}, cmds |-> <<>>, sent |-> <<>>,
                  changed |-> FALSE] :
                    task \in Tasks, device \in Devices}

\* the checks of the parameters: fail_json ends the run
Validate ==
    /\ run.pc = "start"
    /\ run' = IF FailMsg(run.task) # ""
              THEN [run EXCEPT !.pc = "failed", !.msg = FailMsg(run.task)]
              ELSE [run EXCEPT !.pc = "validated"]
    /\ UNCHANGED <<indent, items, last, nops>>

\* existing_core, acl, seqs = get_acl(module, name, seq), and the options
\* taken out of existing_core
GetAcl ==
    /\ run.pc = "validated"
    /\ LET r == get_acl(run.device, Param(run.task, "name"),
                        Param(run.task, "seq"))
       IN  run' = [run EXCEPT !.pc = "fetched",
                              !.existing_core = r.saveme.core,
                              !.existing_options = r.saveme.options,
                              !.no_entries = r.no_entries]
    /\ UNCHANGED <<indent, items, last, nops>>

\* the deltas and the commands
Assemble ==
    /\ run.pc = "fetched"
    /\ LET delta_core == Delta(proposed_core(run.task), run.existing_core,
                               run.existing_core)
           delta_options == Delta(proposed_options(run.task),
                                  run.existing_options, run.existing_core)
           commands == Commands(run.task, run.existing_core, delta_core,
                                delta_options, run.no_entries)
       IN  run' = [run EXCEPT
                     !.pc = "assembled",
                     !.delta_core = delta_core,
                     !.delta_options = delta_options,
                     !.cmds = flatten_list(WithPreface(run.task, commands))]
    /\ UNCHANGED <<indent, items, last, nops>>

\* the commands are sent unless there are none or the run is a check, and
\* the module exits
Finish ==
    /\ run.pc = "assembled"
    /\ run' = IF run.cmds = <<>> THEN [run EXCEPT !.pc = "done"]
              ELSE IF run.task.check_mode
              THEN [run EXCEPT !.pc = "done", !.changed = TRUE]
              ELSE [run EXCEPT !.pc = "done", !.changed = TRUE,
                               !.sent = Sent(run.task, run.cmds)]
    /\ UNCHANGED <<indent, items, last, nops>>

NextMain ==
    \/ Validate
    \/ GetAcl
    \/ Assemble
    \/ Finish

SpecMain == InitMain /\ [][NextMain]_vars

-----------------------------------------------------------------------------
(* Properties                                                              *)

\* the parents a recorded call of replace or add works with
CallParents == IF last.parents = NoList THEN <<>> ELSE last.parents

\* the nodes of the list before the recorded replace that pass its test
HitsBefore ==
    {i \in 1..Len(last.pre) :
        ReplaceHit(last.pre, i, last.repl, Patterns(last.text, last.regex),
                   CallParents)}

\* C1: replace changes the first node, in list order, that matches the
\* pattern, differs from the replacement and has the given parent texts;
\* every other node is left as it was.
C1_ReplaceChangesFirst ==
    (last.op = "replace" /\ last.exc = "" /\ HitsBefore # {}) =>
        LET f == CHOOSE i \in HitsBefore : \A j \in HitsBefore : i <= j
        IN  /\ Len(items) = Len(last.pre)
            /\ items[f].text = last.repl
            /\ \A i \in 1..Len(items) : i # f => items[i] = last.pre[i]

\* the recorded path resolves to no node
PathUnresolved == get_object(items, last.path) = 0

\* C2 as stated: get_section on a path that resolves to no node fails with
\* the path-not-found condition (ValueError) and returns no default value.
C2_GetSectionRaises ==
    (last.op = "get_section" /\ PathUnresolved) => last.exc = "ValueError"

\* C2 as amended: on a path that resolves to no node get_section_objects
\* fails with ValueError, and get_section catches it and returns an empty
\* list.
C2_GetSectionReturnsEmptyList ==
    /\ (last.op = "get_section_objects" /\ PathUnresolved) =>
           last.exc = "ValueError"
    /\ (last.op = "get_section" /\ PathUnresolved) =>
           (last.exc = "" /\ last.isList /\ last.out = <<>>)

C2_Witness ==
    /\ last.op = "get_section"
    /\ PathUnresolved
    /\ items # <<>>
    /\ last.isList

\* C3: a configuration built by load, add and replace diffed against itself
\* with match='line' gives an empty list.
C3_SelfDifferenceEmpty ==
    (last.op = "difference" /\ last.same /\ last.match = "line") =>
        last.out = <<>>

C3_Witness ==
    /\ last.op = "difference"
    /\ last.same
    /\ last.match = "line"
    /\ last.path = NoList
    /\ nops = MaxOps
    /\ \E i \in 1..Len(items) : items[i].children # <<>>

\* the node lists have the same length and are equal node by node
PairwiseEqual(A, B, same) ==
    /\ Len(A) = Len(B)
    /\ \A k \in 1..Len(A) : ConfigLineEq(A, k, B, k, same)

\* the recorded call is difference(other, match='exact') without a path
ExactCall ==
    last.op = "difference" /\ last.match = "exact" /\ last.path = NoList

\* C4 as stated: difference with match='exact' and no path is empty iff the
\* two node lists have the same length and are pairwise equal.
C4_ExactEmptyIffEqual ==
    ExactCall =>
        (last.out = <<>> <=> PairwiseEqual(items, last.other, last.same))

\* C4 as amended: difference with match='exact' and no path is empty iff
\* the candidate has no node, or the two node lists have the same length
\* and are pairwise equal.
C4_ExactEmptyIffEqualOrNoCandidate ==
    ExactCall =>
        (last.out = <<>> <=>
            (items = <<>> \/ PairwiseEqual(items, last.other, last.same)))

C4_Witness ==
    /\ ExactCall
    /\ ~last.same
    /\ Len(items) > 1
    /\ PairwiseEqual(items, last.other, FALSE)
    /\ items # last.other
    /\ last.out = <<>>

\* C5: add is idempotent: a second add with the same lines and parents
\* leaves the node list, and with it every node's text, raw, parents and
\* children, as the first call left it.
C5_AddIdempotent ==
    last.op = "add" => add(items, indent, last.lines, last.parents) = items

C5_Witness ==
    /\ last.op = "add"
    /\ last.parents # NoList
    /\ last.pre # <<>>
    /\ Len(items) > Len(last.pre) + 1
    /\ add(items, indent, last.lines, last.parents) = items

\* C6: after add(lines, parents) every prefix of parents resolves through
\* get_object, a prefix that did not resolve before is a child of the node
\* of the prefix before it, and every line resolves below parents to a node
\* with that text and the parent texts `parents`.
C6_AddResolves ==
    last.op = "add" =>
        /\ \A k \in 1..Len(CallParents) :
              LET now == get_object(items, SubSeq(CallParents, 1, k))
                  was == get_object(last.pre, SubSeq(CallParents, 1, k))
                  up  == get_object(items, SubSeq(CallParents, 1, k - 1))
              IN  /\ now # 0
                  /\ (was = 0 /\ k > 1) =>
                        \E c \in 1..Len(items[up].children) :
                            items[up].children[c] = now
        /\ \A l \in 1..Len(last.lines) :
              LET g == get_object(items, Append(CallParents, last.lines[l]))
              IN  /\ g # 0
                  /\ items[g].text = last.lines[l]
                  /\ ParentTexts(items, g) = CallParents

\* no node of the list before the recorded replace matches the pattern
\* under the given parents
NoNodeMatches ==
    ~\E i \in 1..Len(last.pre) :
        /\ \E k \in 1..Len(Patterns(last.text, last.regex)) :
              Search(Patterns(last.text, last.regex)[k], last.pre[i].text)
        /\ ParentTexts(last.pre, i) = CallParents

\* C7: replace with add_if_missing unset and a pattern that no node matches
\* under the given parents leaves the node list unchanged.
C7_ReplaceNoMatchNoChange ==
    (last.op = "replace" /\ ~last.add_if_missing /\ NoNodeMatches) =>
        items = last.pre

C7_Witness ==
    /\ last.op = "replace"
    /\ ~last.add_if_missing
    /\ last.exc = ""
    /\ NoNodeMatches
    /\ Len(last.pre) > 1
    /\ items = last.pre

\* C8: every node in the children of a node P has P as the last element of
\* its parents; no node is its own child.
C8_ChildHasParentLast ==
    \A p \in 1..Len(items) :
        \A k \in 1..Len(items[p].children) :
            LET c == items[p].children[k]
            IN  /\ c # p
                /\ items[c].parents # <<>>
                /\ items[c].parents[Len(items[c].parents)] = p

\* the lines of the loaded text and the locals of parse before its k-th line
LoadedLines == SplitLines(last.contents, <<>>)
BeforeLine(k) ==
    ParseLines(ParseStart, SubSeq(LoadedLines, 1, k - 1), indent)

\* the line is kept, is indented and lies deeper than the ancestor stack
TooDeep(st, line) ==
    /\ Strip(RemovePunct(line)) # <<>>
    /\ ~ignore_line(Strip(RemovePunct(line)))
    /\ ~IsTopLevel(line)
    /\ LineLevel(line, indent) > Len(st.ancestors)

\* C9: a line whose level exceeds the depth of the ancestor stack is
\* appended to the node list without parent wiring (empty parents, child of
\* no node), and the ancestor stack is left as it was.
C9_TooDeepLineUnwired ==
    last.op = "load" =>
        \A k \in 1..Len(LoadedLines) :
            LET st == BeforeLine(k)
                nx == ParseLine(st, LoadedLines[k], indent)
                n  == Len(st.config) + 1
            IN  TooDeep(st, LoadedLines[k]) =>
                    /\ Len(nx.config) = n
                    /\ SubSeq(nx.config, 1, n - 1) = st.config
                    /\ nx.config[n].parents = <<>>
                    /\ nx.config[n].children = <<>>
                    /\ nx.ancestors = st.ancestors

\* the pre-order of the section of node i, every node once: a node, then
\* the subtree of each child not yet listed, in child order
RECURSIVE PreOrder(_, _, _)
RECURSIVE PreOrderOfChildren(_, _, _)
PreOrder(config, i, S) ==
    PreOrderOfChildren(config, config[i].children, Append(S, i))

PreOrderOfChildren(config, children, S) ==
    IF children = <<>> THEN S
    ELSE IF \E k \in 1..Len(S) : S[k] = Head(children)
    THEN PreOrderOfChildren(config, Tail(children), S)
    ELSE PreOrderOfChildren(config, Tail(children),
                            PreOrder(config, Head(children), S))

\* C10: expand_section(node) is the node followed by all of its
\* descendants, each once, in pre-order, also when several children have
\* the same text.
C10_ExpandSectionPreOrder ==
    last.op = "expand_section" =>
        last.nodes = PreOrder(items, last.node, <<>>)

\* the list `updates` of the recorded call of difference
DiffUpdates ==
    Updates(items, last.other, last.same, last.path, last.match)

\* how often the line x occurs in the list s
Count(s, x) == Cardinality({p \in 1..Len(s) : s[p] = x})

\* how many nodes of the list T carry the raw line r
NodesWithRaw(T, r) == Cardinality({j \in 1..Len(T) : T[j].raw = r})

\* the raw lines of the ancestors of node u, outermost first, then its own
BlockOf(T, u) ==
    [k \in 1..Len(T[u].parents) |-> T[T[u].parents[k]].raw] \o <<T[u].raw>>

\* the lines of b occur in s in the order of b
RECURSIVE IsSubseq(_, _)
IsSubseq(b, s) ==
    IF b = <<>> THEN TRUE
    ELSE IF s = <<>> THEN FALSE
    ELSE IF Head(b) = Head(s) THEN IsSubseq(Tail(b), Tail(s))
    ELSE IsSubseq(b, Tail(s))

\* C11: in the list difference returns, the raw lines of every update's
\* ancestors and its own raw line are present, each ancestor's line before
\* the lines of its descendants, and the line of an ancestor is not repeated:
\* it occurs no more often than there are nodes that carry it.
C11_AncestorContextOnce ==
    last.op = "difference" =>
        \A k \in 1..Len(DiffUpdates) :
            LET u == DiffUpdates[k]
            IN  /\ IsSubseq(BlockOf(items, u), last.out)
                /\ \A a \in 1..Len(items[u].parents) :
                      LET r == items[items[u].parents[a]].raw
                      IN  Count(last.out, r) <= NodesWithRaw(items, r)

\* the recorded call is difference with match='line' and replace='line'
LineCall ==
    last.op = "difference" /\ last.match = "line" /\ last.mode = "line"

\* the raw lines of the updates, in the order of the node list
UpdateLines == [k \in 1..Len(DiffUpdates) |-> items[DiffUpdates[k]].raw]

\* the lines of b occur in s at positions that never decrease
RECURSIVE Embeds(_, _)
Embeds(b, s) ==
    IF b = <<>> THEN TRUE
    ELSE IF s = <<>> THEN FALSE
    ELSE IF Head(b) = Head(s) THEN Embeds(Tail(b), s)
    ELSE Embeds(b, Tail(s))

\* C12 as stated: with match='line' and replace='line' the lines of the
\* updates are in the output in the order of the updates in the node list of
\* a candidate built by load and add.
C12_OutputInListOrder == LineCall => Embeds(UpdateLines, last.out)

\* the list s without the later occurrences of its elements
FirstOf(s) ==
    LET idx == SelectSeq([k \in 1..Len(s) |-> k],
                         LAMBDA k : \A j \in 1..(k - 1) : s[j] # s[k])
    IN  [m \in 1..Len(idx) |-> s[idx[m]]]

\* the raw lines of the updates that have no parents, in list order
TopUpdateLines ==
    LET top == SelectSeq(DiffUpdates, LAMBDA u : items[u].parents = <<>>)
    IN  [k \in 1..Len(top) |-> items[top[k]].raw]

\* C12: with match='line' and replace='line' the lines of the updates
\* without parents are in the output in the order in which they first occur
\* in the node list, and the line of an update with parents follows the
\* lines of its ancestors, wherever the node is in the list.
C12_TopLevelInListOrder ==
    LineCall =>
        /\ IsSubseq(FirstOf(TopUpdateLines), last.out)
        /\ \A k \in 1..Len(DiffUpdates) :
              IsSubseq(BlockOf(items, DiffUpdates[k]), last.out)

\* after an add, a difference whose updates are not in list order although
\* two of them have no parents and one has
C12_Witness ==
    /\ LineCall
    /\ nops > 0
    /\ Len(TopUpdateLines) >= 2
    /\ Len(DiffUpdates) > Len(TopUpdateLines)
    /\ ~Embeds(UpdateLines, last.out)

\* the node list parsed from the block form of the loaded node list
Reparsed == parse(to_block(items, AllNodes(items)), indent)

\* C13: rendering the parsed node list in block form and parsing the result
\* with the same indent gives a node list of the same length whose nodes
\* have, position by position, the same text and the same parent texts and
\* compare equal.
C13_ParseRenderParse ==
    last.op = "load" =>
        /\ Len(Reparsed) = Len(items)
        /\ \A k \in 1..Len(items) :
              /\ Reparsed[k].text = items[k].text
              /\ ParentTexts(Reparsed, k) = ParentTexts(items, k)
              /\ ConfigLineEq(items, k, Reparsed, k, FALSE)

\* a loaded text of two nodes, the second below the first, with a brace
\* that parse removes from the text
C13_Witness ==
    /\ last.op = "load"
    /\ Len(items) = 2
    /\ items[2].parents = <<1>>
    /\ items[2].text # Strip(items[2].raw)
    /\ Len(Reparsed) = 2

\* node m of the list was changed in place by the recorded replace: same
\* parents and children, the replacement as text, and as raw text the
\* replacement behind as many blanks as the old raw text had leading
\* whitespace
ChangedInPlace(m) ==
    /\ items[m].text = last.repl
    /\ items[m].raw = Blanks(LeadingWs(last.pre[m].raw)) \o last.repl
    /\ LeadingWs(items[m].raw) = LeadingWs(last.pre[m].raw)
    /\ items[m].parents = last.pre[m].parents
    /\ items[m].children = last.pre[m].children

\* C14: when replace finds a matching node, the node list keeps its length
\* and a matching node is changed in place: same position, parents and
\* children, text = the replacement, raw text = the replacement preceded by
\* as many leading whitespace columns as the old raw text had.
C14_ReplaceInPlace ==
    (last.op = "replace" /\ last.exc = "" /\ HitsBefore # {}) =>
        /\ Len(items) = Len(last.pre)
        /\ \E m \in HitsBefore :
              /\ last.pre[m].text # last.repl
              /\ ChangedInPlace(m)

\* a replace that changed an indented node
C14_Witness ==
    /\ last.op = "replace"
    /\ last.exc = ""
    /\ \E m \in HitsBefore :
          /\ LeadingWs(last.pre[m].raw) > 0
          /\ last.pre[m].parents # <<>>
          /\ ChangedInPlace(m)
          /\ items[m] # last.pre[m]

\* the path the recorded call of get or get_children works with
CalledPath == IF last.text # NoText THEN <<last.text>> ELSE last.path

\* no node of the list T has the last text of path p and, as parent texts,
\* the texts before it
ResolvesToNoNode(T, p) ==
    \/ p = <<>>
    \/ ~\E i \in 1..Len(T) :
           /\ T[i].text = p[Len(p)]
           /\ ParentTexts(T, i) = SubSeq(p, 1, Len(p) - 1)

\* C15: get and get_children, called with a path that resolves to no node
\* (the empty path and a path deeper than the tree included), raise nothing
\* and return None.
C15_NotFoundNeverRaises ==
    (last.op \in {"get", "get_children"} /\ ResolvesToNoNode(items, CalledPath))
        => /\ last.exc = ""
           /\ last.node = 0
           /\ ~last.isList

\* node i of the list A and node j of the list B have the same text and the
\* same sequence of ancestors' texts
SameTextAndChain(A, i, B, j) ==
    /\ A[i].text = B[j].text
    /\ ParentTexts(A, i) = ParentTexts(B, j)

\* C16: two nodes, of the same configuration or of the candidate and the
\* reference of a difference, compare equal if and only if their texts are
\* equal and the sequences of their ancestors' texts are equal; raw text and
\* children play no part.
C16_EqualIffTextAndChain ==
    /\ \A i, j \in 1..Len(items) :
          ConfigLineEq(items, i, items, j, TRUE)
              <=> SameTextAndChain(items, i, items, j)
    /\ last.op = "difference" =>
          \A i \in 1..Len(items), j \in 1..Len(last.other) :
              ConfigLineEq(items, i, last.other, j, last.same)
                  <=> SameTextAndChain(items, i, last.other, j)

\* the recorded call is difference with match='line' and a path
LinePathCall ==
    last.op = "difference" /\ last.match = "line" /\ last.path # NoList

\* the elements of the list s
Elems(s) == {s[k] : k \in 1..Len(s)}

\* the candidate's children of the recorded path, and the reference's
CandidateChildren == Elems(get_children(items, last.path))
ReferenceChildren == Elems(get_children(last.other, last.path))

\* node c of the candidate and node j of the reference are the same object
\* or compare equal
EqualInReference(c, j) ==
    \/ last.same /\ c = j
    \/ ConfigLineEq(items, c, last.other, j, last.same)

\* C20 as stated: with match='line' and a path, the updates are the
\* candidate's children of the path that have no equal node among the
\* reference's children of the same path.
C20_UpdatesAgainstSubList ==
    LinePathCall =>
        Elems(DiffUpdates) =
            {c \in CandidateChildren :
                ~\E j \in ReferenceChildren : EqualInReference(c, j)}

\* the candidate's children of the recorded path that have no equal node
\* anywhere in the reference's node list
MissingInReference ==
    {c \in CandidateChildren :
        ~\E j \in 1..Len(last.other) : EqualInReference(c, j)}

\* C20: with match='line' and a path, the updates are the candidate's
\* children of the path that have no equal node anywhere in the reference's
\* node list; with replace='line' the output holds the raw line of each of
\* them and is empty when there is none.
C20_UpdatesAgainstWholeList ==
    LinePathCall =>
        /\ Elems(DiffUpdates) = MissingInReference
        /\ last.mode = "line" =>
              /\ \A c \in MissingInReference : Count(last.out, items[c].raw) > 0
              /\ MissingInReference = {} => last.out = <<>>

\* a candidate child of the path that equals a child of a repeated section
\* of the reference, outside the reference's children of the path, and is
\* no update
C20_Witness ==
    /\ LinePathCall
    /\ last.mode = "line"
    /\ ~last.same
    /\ \E c \in CandidateChildren :
          /\ c \notin Elems(DiffUpdates)
          /\ ~\E j \in ReferenceChildren : EqualInReference(c, j)
          /\ \E p, j \in 1..Len(last.other) :
                /\ j \in Elems(last.other[p].children)
                /\ EqualInReference(c, j)
    /\ last.out = <<>>

\* a run of main with the given state has ended without fail_json
Ended(state) == run.pc = "done" /\ run.task.state = state

\* the proposed ACE, core and options, is the ACE that get_acl found on the
\* device under the task's sequence number
IdenticalAce ==
    /\ run.existing_core # {}
    /\ proposed_core(run.task) = run.existing_core
    /\ proposed_options(run.task) = run.existing_options

\* C17: with state=present the module has commands exactly when the
\* proposed ACE differs, in its core or its options, from the ACE on the
\* device under the same sequence number: none, nothing sent and
\* changed=false when they are identical, commands when there is any
\* difference.
C17_PushedIffDifferent ==
    Ended("present") =>
        /\ run.cmds = <<>> <=> IdenticalAce
        /\ IdenticalAce => ~run.changed /\ run.sent = <<>>

\* the device has an ACL of the task's name
AclExists ==
    \E k \in 1..Len(run.device) :
        run.device[k].acl_name = Param(run.task, "name")

\* C18: with state=delete_acl the command 'no ip access-list NAME' is the
\* module's command when the device has an ACL of that name, with or without
\* entries, and there is no command when it has none.
C18_DeleteAclIffExists ==
    Ended("delete_acl") =>
        run.cmds = IF AclExists
                   THEN <<<<"no", "ip", "access-list",
                            Param(run.task, "name")>>>>
                   ELSE <<>>

\* the state is present, the ACE exists on the device and there are
\* commands
ChangeOfExistingAce ==
    /\ run.pc \in {"assembled", "done"}
    /\ run.task.state = "present"
    /\ run.existing_core # {}
    /\ run.cmds # <<>>

\* the words of b are the first words of s
IsPrefix(b, s) == Len(b) <= Len(s) /\ SubSeq(s, 1, Len(b)) = b

\* C19: with state=present, when the ACE exists on the device and a change
\* is pushed, the commands are 'ip access-list NAME', then 'no SEQ', then
\* the line of the proposed ACE, and they are sent in that order, behind
\* nothing but the 'configure' of the cli transport.
C19_RemovalBeforeAdd ==
    ChangeOfExistingAce =>
        /\ Len(run.cmds) = 3
        /\ run.cmds[1] = <<"ip", "access-list", Param(run.task, "name")>>
        /\ run.cmds[2] = <<"no", Param(run.task, "seq")>>
        /\ IsPrefix(config_core_acl(proposed_core(run.task)), run.cmds[3])
        /\ (run.pc = "done" /\ ~run.task.check_mode) =>
              run.sent \in {run.cmds, <<<<"configure">>>> \o run.cmds}

\* a change of an existing ACE, options included, that was sent
C19_Witness ==
    /\ ChangeOfExistingAce
    /\ run.pc = "done"
    /\ Len(run.sent) >= 3
    /\ run.delta_options # {}
    /\ Len(run.cmds[3]) > Len(config_core_acl(proposed_core(run.task)))

\* the recorded call is difference with replace='block'
BlockCall == last.op = "difference" /\ last.mode = "block"

\* the last element of the parents list of node u, or u if the list is empty
LastParent(T, u) ==
    IF T[u].parents = <<>> THEN u ELSE T[u].parents[Len(T[u].parents)]

\* the closest ancestor of node u that is not a top-level node, or u where
\* u has no such ancestor
NearestNonRoot(T, u) ==
    LET inner == {k \in 1..Len(T[u].parents) :
                     T[T[u].parents[k]].parents # <<>>}
    IN  IF inner = {} THEN u
        ELSE T[u].parents[CHOOSE k \in inner : \A m \in inner : m <= k]

\* the nested dict after expanding the nodes of the list objs in turn
RECURSIVE ExpandAll(_, _, _)
ExpandAll(T, objs, d) ==
    IF objs = <<>> THEN d
    ELSE ExpandAll(T, Tail(objs), expand(T, Head(objs), d))

\* C21 as stated: with replace='block' the output is the one of expanding,
\* for every update that has a parent, its nearest ancestor that is not a
\* top-level node (the update itself where it has none).
C21_ReplacedByNearestNonRoot ==
    BlockCall =>
        last.out =
            flatten(ExpandAll(items,
                              [k \in 1..Len(DiffUpdates) |->
                                  NearestNonRoot(items, DiffUpdates[k])],
                              <<>>))

\* the lines of the block of node p followed by the line of its child c
ChildBlock(T, p, c) == Append(BlockOf(T, p), T[c].raw)

\* the lines that reporting node p puts in the output: those of its
\* ancestors, its own, those of its children
ReportedLines(T, p) ==
    Elems(BlockOf(T, p)) \cup {T[T[p].children[k]].raw :
                                  k \in 1..Len(T[p].children)}

\* C21: with replace='block' every update is reported as the last element of
\* its parents list, its immediate parent, top-level or not (as itself if it
\* has no parents): the output has the lines of that node's ancestors, its
\* own line and the line of each of its children below them, and no line
\* that is not one of these for some update.
C21_ReplacedByLastParent ==
    BlockCall =>
        /\ \A k \in 1..Len(DiffUpdates) :
              LET p == LastParent(items, DiffUpdates[k])
              IN  /\ IsSubseq(BlockOf(items, p), last.out)
                  /\ \A c \in Elems(items[p].children) :
                        IsSubseq(ChildBlock(items, p, c), last.out)
        /\ \A n \in 1..Len(last.out) :
              \E k \in 1..Len(DiffUpdates) :
                  last.out[n] \in
                      ReportedLines(items, LastParent(items, DiffUpdates[k]))

\* a difference with replace='block' in which an update's parent is a
\* top-level node and the update has a child whose line is not in the output
C21_Witness ==
    /\ BlockCall
    /\ \E k \in 1..Len(DiffUpdates) :
          LET u == DiffUpdates[k]
          IN  /\ Len(items[u].parents) = 1
              /\ items[items[u].parents[1]].parents = <<>>
              /\ u \in Elems(items[items[u].parents[1]].children)
              /\ \E c \in Elems(items[u].children) :
                    /\ c # u
                    /\ \A n \in 1..Len(last.out) : last.out[n] # items[c].raw

\* the node of the list T that get resolves for the texts of the parents of
\* node i (0 if it resolves none or raises)
ResolvedParent(T, i) ==
    LET r == get(T, NoText, ParentTexts(T, i))
    IN  IF r.exc = "" THEN r.node ELSE 0

\* C22: in a configuration built from the empty one by calls of add, no two
\* distinct nodes compare equal or have the same text and the same sequence
\* of ancestors' texts, and every node with parents is a child of the node
\* that get resolves for the texts of its parents.
C22_AddKeepsNodesDistinctAndWired ==
    /\ \A i, j \in 1..Len(items) :
          i # j => /\ ~ConfigLineEq(items, i, items, j, TRUE)
                   /\ ~SameTextAndChain(items, i, items, j)
    /\ \A i \in 1..Len(items) :
          items[i].parents # <<>> =>
              /\ ResolvedParent(items, i) # 0
              /\ i \in Elems(items[ResolvedParent(items, i)].children)

\* the node of the list T with the text `line` among the children of the
\* node that the path resolves to (0 if there is none)
ChildAt(T, path, line) ==
    LET p == get_object(T, path)
    IN  IF p = 0 THEN 0
        ELSE LET hits == {c \in Elems(T[p].children) : T[c].text = line}
             IN  IF hits = {} THEN 0 ELSE CHOOSE c \in hits : TRUE

\* a second add with two or more parents that met a child it was asked to
\* add, added no node for it, and added another node below a parent that it
\* found
C22_Witness ==
    /\ last.op = "add"
    /\ nops >= 2
    /\ last.parents # NoList
    /\ Len(last.parents) >= 2
    /\ get_object(last.pre, last.parents) # 0
    /\ \E k \in 1..Len(last.lines) :
          ChildAt(last.pre, last.parents, last.lines[k]) # 0
    /\ \E k \in 1..Len(last.lines) :
          ChildAt(last.pre, last.parents, last.lines[k]) = 0
    /\ Len(items) = Len(last.pre) + 1

=============================================================================
